---------------------------- MODULE Spec2Model ----------------------------
(***************************************************************************)
(* tinyxmp: reading and writing raw XMP packets in JPEG and PNG files.     *)
(*                                                                         *)
(* Byte strings are sequences of integers 0..255.  The module is Python 2  *)
(* code (a str literal is a byte string, "IHDR" == b"IHDR"), and the model *)
(* follows Python 2 semantics for slices, find/rfind/count and file reads. *)
(* An exception is a tag: the XMPError raised with each message has its    *)
(* own tag ("XMPError.<kind>"); struct.error, IndexError, IOError and      *)
(* UnboundLocalError are the interpreter's and the library's own.          *)
(***************************************************************************)
EXTENDS Integers, Sequences, FiniteSets, TLC

VARIABLES
    path_ext,      \* extension of self.filename, lower-cased ("jpg", "png", ...)
    disk,          \* bytes stored at self.filename, or Absent
    tmpfile,       \* bytes stored at temp.name, or Absent
    f_open,        \* the file object f is open
    f_pos,         \* f.tell()
    temp,          \* the local temp: "None", "open" or "closed"
    pc,            \* position of the running call
    exc,           \* the exception the last call raised, or "none"
    in_init,       \* the running _process was called by Metadata.__init__
    writes,        \* number of write_xmp calls made on the handle
    new_xmp,       \* _process's parameter, in rows (None and b'' are both falsy: <<>>)
    file_pos,      \* _process local
    xmp_seg_pos,   \* _process local
    xmp_seg_size,  \* _process local
    xmp_packet,    \* _process local
    _xmp,          \* self._xmp: NoneVal or a byte string
    orig,          \* history: disk when the running call started
    framed,        \* history: new_xmp after framing, before padding, in rows
    branch,        \* history: "none", "grow" or "fit"
    segs_seen,     \* history: record types the scan of this call has read
    call,          \* pure-function harness: the pending call
    ret            \* pure-function harness: its result

fileVars == <<path_ext, disk, tmpfile, f_open, f_pos, temp, pc, exc, in_init,
              writes, new_xmp, file_pos, xmp_seg_pos, xmp_seg_size,
              xmp_packet, _xmp, orig, framed, branch, segs_seen>>
pureVars == <<call, ret>>
vars == <<fileVars, pureVars>>

---------------------------------------------------------------------------
(* Byte-string literals of the source.                                    *)

\* b'\xef\xbb\xbf'
BOM == <<239, 187, 191>>
\* b'<?xpacket begin="'
XPACKET_BEGIN == <<60, 63, 120, 112, 97, 99, 107, 101, 116, 32, 98, 101, 103, 105, 110, 61, 34>>
\* b'" id="'
XPACKET_ID == <<34, 32, 105, 100, 61, 34>>
\* b'"?>'
XPACKET_PI_END == <<34, 63, 62>>
\* b'<x:xmpmeta xmlns:x="adobe:ns:meta/">'
XMPMETA_OPEN == <<60, 120, 58, 120, 109, 112, 109, 101, 116, 97, 32, 120, 109, 108, 110, 115, 58, 120, 61, 34, 97, 100, 111, 98, 101, 58, 110, 115, 58, 109, 101, 116, 97, 47, 34, 62>>
\* b'</x:xmpmeta>'
XMPMETA_CLOSE == <<60, 47, 120, 58, 120, 109, 112, 109, 101, 116, 97, 62>>
\* b'<?xpacket end="w"?>'
XPACKET_END == <<60, 63, 120, 112, 97, 99, 107, 101, 116, 32, 101, 110, 100, 61, 34, 119, 34, 63, 62>>
\* b'<rdf:RDF'
RDF_START == <<60, 114, 100, 102, 58, 82, 68, 70>>
\* b'</rdf:RDF>'
RDF_END == <<60, 47, 114, 100, 102, 58, 82, 68, 70, 62>>
\* b'<?xpacket'
XPACKET == <<60, 63, 120, 112, 97, 99, 107, 101, 116>>
\* b'\377\330'
JPEG_MAGIC == <<255, 216>>
\* 'Exif\x00\x00'
EXIF_SIG == <<69, 120, 105, 102, 0, 0>>
\* "http://ns.adobe.com/xap/1.0/\x00"
XMP_NS == <<104, 116, 116, 112, 58, 47, 47, 110, 115, 46, 97, 100, 111, 98, 101, 46, 99, 111, 109, 47, 120, 97, 112, 47, 49, 46, 48, 47, 0>>
\* b'\x89PNG\r\n\x1a\n'
PNG_MAGIC == <<137, 80, 78, 71, 13, 10, 26, 10>>
\* "IHDR", "iTXt", "IEND"
IHDR == <<73, 72, 68, 82>>
iTXt == <<105, 84, 88, 116>>
IEND == <<73, 69, 78, 68>>
\* b'XML:com.adobe.xmp\x00\x00\x00\x00\x00'
XMP_KEYWORD == <<88, 77, 76, 58, 99, 111, 109, 46, 97, 100, 111, 98, 101, 46, 120, 109, 112, 0, 0, 0, 0, 0>>

\* JPEG segment types tested by the scan, and the type written.
APP0 == 224
APP1 == 225
SOS == 218
\* seg_data[29:] and chunk_data[22:]
JPEG_PREFIX_LEN == 29
PNG_PREFIX_LEN == 22
\* chunk_length + 12
PNG_CHUNK_OVERHEAD == 12
\* len(new_xmp) > 65502
MAX_JPEG_PACKET == 65502
\* (len(new_xmp) // 4000 + 1) * 4000
PAD_UNIT == 4000
\* range(0, len(pad), 80)
PAD_LINE == 80
\* ord(b'\n'), b' '
NEWLINE == 10
SPACE == 32

\* Python's None where a byte string may stand; no byte string equals it.
NoneVal == <<-1>>
\* No file at the path.
Absent == <<-2>>

---------------------------------------------------------------------------
(* Python 2 byte-string primitives.                                       *)

MinOf(S) == CHOOSE x \in S : \A y \in S : x <= y
MaxOf(S) == CHOOSE x \in S : \A y \in S : x >= y

\* The packet being written is held in the state cut into rows of PAD_LINE
\* bytes (the last one may be shorter); Bytes gives the byte string back.
Rows(s) ==
    IF s = <<>> THEN <<>>
    ELSE [r \in 1..((Len(s) + PAD_LINE - 1) \div PAD_LINE) |->
             SubSeq(s, PAD_LINE * (r - 1) + 1, MinOf({PAD_LINE * r, Len(s)}))]
Bytes(rows) ==
    IF rows = <<>> THEN <<>>
    ELSE LET n == PAD_LINE * (Len(rows) - 1) + Len(rows[Len(rows)])
         IN  SubSeq([i \in 1..n |->
                        rows[((i - 1) \div PAD_LINE) + 1][((i - 1) % PAD_LINE) + 1]],
                    1, n)

\* 0-based offsets at which p occurs in s.
Occurrences(s, p) ==
    {i \in 0..(Len(s) - Len(p)) : \A k \in 1..Len(p) : s[i + k] = p[k]}

\* s.find(p), s.rfind(p): -1 when p does not occur.
find(s, p) == LET occ == Occurrences(s, p) IN IF occ = {} THEN -1 ELSE MinOf(occ)
rfind(s, p) == LET occ == Occurrences(s, p) IN IF occ = {} THEN -1 ELSE MaxOf(occ)

\* s.count(p): occurrences counted left to right without overlap.
RECURSIVE CountFrom(_, _, _)
CountFrom(occ, from, m) ==
    LET rest == {i \in occ : i >= from}
    IN  IF rest = {} THEN 0 ELSE 1 + CountFrom(occ, MinOf(rest) + m, m)
count(s, p) == CountFrom(Occurrences(s, p), 0, Len(p))

\* s.startswith(p)
startswith(s, p) == Len(s) >= Len(p) /\ SubSeq(s, 1, Len(p)) = p

\* s[lo:hi] with Python's treatment of negative and out-of-range indices.
SliceIndex(s, i) ==
    IF i < 0 THEN (IF i + Len(s) < 0 THEN 0 ELSE i + Len(s))
    ELSE (IF i > Len(s) THEN Len(s) ELSE i)
Slice(s, lo, hi) ==
    LET a == SliceIndex(s, lo)
        b == SliceIndex(s, hi)
    IN  IF a < b THEN SubSeq(s, a + 1, b) ELSE <<>>

\* struct.pack(">H", n) and struct.pack(">I", n) for n in range.
PackH(n) == <<n \div 256, n % 256>>
PackI(n) == <<(n \div 16777216) % 256, (n \div 65536) % 256, (n \div 256) % 256, n % 256>>
UnpackH(b) == b[1] * 256 + b[2]
UnpackI(b) == b[1] * 16777216 + b[2] * 65536 + b[3] * 256 + b[4]

\* f.read(n) at offset pos of a file holding data: n < 0 reads to the end.
Read(data, pos, n) == IF n < 0 THEN Slice(data, pos, Len(data)) ELSE Slice(data, pos, pos + n)

\* f.write(bytes) at offset pos of a file holding data.
Overwrite(data, pos, bytes) ==
    SubSeq(data, 1, pos) \o bytes \o Slice(data, pos + Len(bytes), Len(data))

---------------------------------------------------------------------------
(* Packet framing and padding.                                            *)

\* wrap_packet with the packet id given.
wrap_packet(rdf, guid) ==
    XPACKET_BEGIN \o BOM \o XPACKET_ID \o guid \o XPACKET_PI_END
        \o XMPMETA_OPEN \o rdf \o XMPMETA_CLOSE \o XPACKET_END

\* Mutant of unwrap_packet: the end marker's length is off by one.
unwrap_packet_ShortEnd(xmp) ==
    LET rdf_start == find(xmp, RDF_START)
        rdf_end == find(xmp, RDF_END) + 9
    IN  Slice(xmp, rdf_start, rdf_end)

unwrap_packet(xmp) ==
    LET rdf_start == find(xmp, RDF_START)
        rdf_end == find(xmp, RDF_END) + 10
    IN  Slice(xmp, rdf_start, rdf_end)

packet_is_wrapped(xmp) == count(xmp, XPACKET) = 2

\* The padding bytes pad_packet builds; pad[-1] fails on an empty bytearray.
PadBytes(delta) ==
    [i \in 1..delta |-> IF (i - 1) % PAD_LINE = 0 \/ i = delta THEN NEWLINE ELSE SPACE]

\* Mutant of pad_packet: one padding byte too many.
pad_packet_LongPad(xmp, size) ==
    IF Len(xmp) > size
    THEN [exc |-> "XMPError.PacketTooLarge", val |-> <<>>]
    ELSE LET delta == size - Len(xmp)
             packet_end == rfind(xmp, XPACKET)
             left == Slice(xmp, 0, packet_end)
             right == Slice(xmp, packet_end, Len(xmp))
         IN  IF delta = 0
             THEN [exc |-> "IndexError", val |-> <<>>]
             ELSE [exc |-> "none", val |-> left \o PadBytes(delta + 1) \o right]

pad_packet(xmp, size) ==
    IF Len(xmp) > size
    THEN [exc |-> "XMPError.PacketTooLarge", val |-> <<>>]
    ELSE LET delta == size - Len(xmp)
             packet_end == rfind(xmp, XPACKET)
             left == Slice(xmp, 0, packet_end)
             right == Slice(xmp, packet_end, Len(xmp))
         IN  IF delta = 0
             THEN [exc |-> "IndexError", val |-> <<>>]
             ELSE [exc |-> "none", val |-> left \o PadBytes(delta) \o right]

\* has_xmp(): bool(self._xmp)
has_xmp == _xmp # NoneVal /\ Len(_xmp) > 0

---------------------------------------------------------------------------
(* Container records.                                                     *)

\* zlib.crc32(bytes) & 0xffffffff, as its four big-endian bytes.  The
\* polynomial itself is the library's; the code relies only on the digest
\* being a function of type + data, so an Adler-style pair of sums stands in.
RECURSIVE DigestSums(_, _, _)
DigestSums(s, lo, hi) ==
    IF lo > hi THEN <<1, 0>>
    ELSE IF lo = hi THEN <<(s[lo] + 1) % 65521, (lo * (s[lo] + 1)) % 65521>>
    ELSE LET mid == (lo + hi) \div 2
             l == DigestSums(s, lo, mid)
             r == DigestSums(s, mid + 1, hi)
         IN  <<(l[1] + r[1]) % 65521, (l[2] + r[2]) % 65521>>
crc32(s) == LET d == DigestSums(s, 1, Len(s)) IN PackH(d[2]) \o PackH(d[1])

\* Mutant of _read_segment: a missing marker byte is taken for the start
\* of scan instead of raising.
_read_segment_Lenient(data, pos) ==
    LET magic == Read(data, pos, 1)
        tb == Read(data, pos + 1, 1)
        lb == Read(data, pos + 2, 2)
        none == [exc |-> "none", type |-> 0, length |-> 0, data |-> <<>>, pos |-> pos]
    IN  IF magic # <<255>> THEN [none EXCEPT !.type = SOS]
        ELSE IF Len(tb) # 1 \/ Len(lb) # 2 THEN [none EXCEPT !.exc = "struct.error"]
        ELSE LET length == UnpackH(lb)
                 body == Read(data, pos + 4, length - 2)
             IN  [exc |-> "none", type |-> tb[1], length |-> length,
                  data |-> body, pos |-> pos + 4 + Len(body)]

\* JpegMetadata._read_segment at offset pos: the segment, the offset after
\* it, or the exception.  f.read(length - 2) with length < 2 reads to the end.
_read_segment(data, pos) ==
    LET magic == Read(data, pos, 1)
        tb == Read(data, pos + 1, 1)
        lb == Read(data, pos + 2, 2)
        none == [exc |-> "none", type |-> 0, length |-> 0, data |-> <<>>, pos |-> pos]
    IN  IF magic # <<255>> THEN [none EXCEPT !.exc = "XMPError.InvalidSegment"]
        ELSE IF Len(tb) # 1 \/ Len(lb) # 2 THEN [none EXCEPT !.exc = "struct.error"]
        ELSE LET length == UnpackH(lb)
                 body == Read(data, pos + 4, length - 2)
             IN  [exc |-> "none", type |-> tb[1], length |-> length,
                  data |-> body, pos |-> pos + 4 + Len(body)]

\* JpegMetadata._write_segment: the bytes written, or struct.error when
\* len(data) + 2 does not fit the ">H" field.
_write_segment(type, data) ==
    IF Len(data) + 2 > 65535
    THEN [exc |-> "struct.error", val |-> <<>>]
    ELSE [exc |-> "none", val |-> <<255, type>> \o PackH(Len(data) + 2) \o data]

\* PngMetadata._read_chunk at offset pos.
_read_chunk(data, pos) ==
    LET lb == Read(data, pos, 4)
        none == [exc |-> "none", length |-> 0, type |-> <<>>, data |-> <<>>, pos |-> pos]
    IN  IF Len(lb) # 4 THEN [none EXCEPT !.exc = "struct.error"]
        ELSE LET chunk_length == UnpackI(lb)
                 chunk_type == Read(data, pos + 4, 4)
                 chunk_data == Read(data, pos + 8, chunk_length)
                 cb == Read(data, pos + 8 + Len(chunk_data), 4)
             IN  IF Len(cb) # 4 THEN [none EXCEPT !.exc = "struct.error"]
                 ELSE IF crc32(chunk_type \o chunk_data) # cb
                 THEN [none EXCEPT !.exc = "XMPError.ChecksumError"]
                 ELSE [exc |-> "none", length |-> chunk_length, type |-> chunk_type,
                       data |-> chunk_data, pos |-> pos + 12 + Len(chunk_data)]

\* PngMetadata._write_chunk: the bytes written.
_write_chunk(type, data) ==
    PackI(Len(data)) \o type \o data \o crc32(type \o data)

\* (len(new_xmp) // 4000 + 1) * 4000
GrowCapacity(n) == (n \div PAD_UNIT + 1) * PAD_UNIT

---------------------------------------------------------------------------
(* Bounds and inputs.                                                     *)

\* write_xmp calls made on one handle.
MaxWrites == 1
\* Longest body of the small RDF inputs.
MaxBody == 2

\* <rdf:RDF> + k bytes + </rdf:RDF>
Rdf(k) == RDF_START \o <<62>> \o [i \in 1..k |-> 120] \o RDF_END
\* A packet id as uuid.uuid4().hex.encode() gives it: 32 hex digits.
GuidOf(c) == [i \in 1..32 |-> c]
UuidHex == {GuidOf(48), GuidOf(97)}
\* The bare RDF whose framed packet (with a 32-digit id) is n bytes long.
RdfFramedTo(n) == Rdf(n - Len(wrap_packet(Rdf(0), GuidOf(48))))

\* The packet stored in the input files that hold an XMP record.
ExistingPacket == wrap_packet(Rdf(1), GuidOf(48))

Seg(type, data) == _write_segment(type, data).val
JpegDqt == Seg(219, <<1, 2, 3>>)
\* Start of scan, entropy-coded data, end of image.
JpegTail == Seg(SOS, <<1, 2>>) \o <<17, 34, 255, 217>>
JpegApp0 == Seg(APP0, <<74, 70, 73, 70, 0, 1, 1>>)
JpegExif == Seg(APP1, EXIF_SIG \o <<77, 77>>)

JpegBareFile == JPEG_MAGIC \o JpegDqt \o JpegTail
JpegApp0File == JPEG_MAGIC \o JpegApp0 \o JpegDqt \o JpegTail
JpegExifFile == JPEG_MAGIC \o JpegApp0 \o JpegExif \o JpegDqt \o JpegTail
\* An XMP segment whose packet has no padding left.
JpegXmpTightFile ==
    JPEG_MAGIC \o JpegApp0 \o Seg(APP1, XMP_NS \o ExistingPacket) \o JpegDqt \o JpegTail
\* An XMP segment with a padded packet.
JpegXmpPaddedFile ==
    JPEG_MAGIC \o JpegApp0 \o JpegExif
        \o Seg(APP1, XMP_NS \o pad_packet(ExistingPacket, 256).val) \o JpegDqt \o JpegTail
\* The Exif segment's length field (10 when intact) overwritten with badlen,
\* so that the payload read swallows the segments after it.
JpegCorruptFile(badlen) ==
    JPEG_MAGIC \o JpegApp0 \o <<255, APP1>> \o PackH(badlen) \o EXIF_SIG \o <<77, 77>>
        \o JpegDqt \o JpegTail
\* 23: the walk resumes in the entropy-coded data; 25: on the end-of-image
\* marker; 40: beyond the end of the file.
JpegCorruptFiles == {JpegCorruptFile(23), JpegCorruptFile(25), JpegCorruptFile(40)}
\* The same corruption, where the bytes the walk resumes on happen to parse
\* as a start-of-scan segment.
JpegResyncFile ==
    JPEG_MAGIC \o JpegApp0 \o <<255, APP1>> \o PackH(23) \o EXIF_SIG \o <<77, 77>>
        \o JpegDqt \o Seg(SOS, <<1, 2>>) \o <<255, 218, 0, 2, 255, 217>>
JpegFiles ==
    {JpegBareFile, JpegApp0File, JpegExifFile, JpegXmpTightFile, JpegXmpPaddedFile,
     JpegResyncFile} \cup JpegCorruptFiles

PngIhdr == _write_chunk(IHDR, <<0, 0, 0, 1, 0, 0, 0, 1, 8, 0, 0, 0, 0>>)
PngIdat == _write_chunk(<<73, 68, 65, 84>>, <<1, 2, 3>>)
PngIend == _write_chunk(IEND, <<>>)
PngPlainFile == PNG_MAGIC \o PngIhdr \o PngIdat \o PngIend
PngXmpTightFile ==
    PNG_MAGIC \o PngIhdr \o _write_chunk(iTXt, XMP_KEYWORD \o ExistingPacket)
        \o PngIdat \o PngIend
PngXmpPaddedFile ==
    PNG_MAGIC \o PngIhdr
        \o _write_chunk(iTXt, XMP_KEYWORD \o pad_packet(ExistingPacket, 256).val)
        \o PngIdat \o PngIend
PngNoIhdrFile == PNG_MAGIC \o PngIdat \o PngIend
\* The last byte of IDAT's checksum altered.
PngBadCrcFile ==
    PNG_MAGIC \o PngIhdr \o SubSeq(PngIdat, 1, Len(PngIdat) - 1)
        \o <<(PngIdat[Len(PngIdat)] + 1) % 256>> \o PngIend
\* No IEND chunk.
PngTruncatedFile == PNG_MAGIC \o PngIhdr \o PngIdat
PngFiles ==
    {PngPlainFile, PngXmpTightFile, PngXmpPaddedFile, PngNoIhdrFile, PngBadCrcFile,
     PngTruncatedFile}

InputFiles == JpegFiles \cup PngFiles
Extensions == {".jpg", ".png", ".gif"}

\* Arguments of write_xmp.  The inputs at the JPEG ceiling are given to a
\* freshly loaded JPEG handle.
SmallInputs ==
    {Rdf(k) : k \in 0..MaxBody}
        \cup {<<>>, wrap_packet(Rdf(0), GuidOf(102)), RdfFramedTo(PAD_UNIT)}
CeilingInputs == {RdfFramedTo(64000), RdfFramedTo(MAX_JPEG_PACKET + 1)}
NewXmpInputs ==
    SmallInputs \cup (IF path_ext = ".jpg" /\ writes = 0 THEN CeilingInputs ELSE {})

---------------------------------------------------------------------------
(* The handle: Metadata.load, Metadata.__init__, write_xmp.               *)

NoCall == [fn |-> "none"]
pureIdle == call = NoCall /\ ret = NoCall

\* A file on disk and a path; load has not run yet.
Init ==
    /\ path_ext \in Extensions
    /\ disk \in InputFiles
    /\ tmpfile = Absent
    /\ f_open = FALSE
    /\ f_pos = 0
    /\ temp = "None"
    /\ pc = "start"
    /\ exc = "none"
    /\ in_init = TRUE
    /\ writes = 0
    /\ new_xmp = <<>>
    /\ file_pos = 0
    /\ xmp_seg_pos = 0
    /\ xmp_seg_size = 0
    /\ xmp_packet = <<>>
    /\ _xmp = NoneVal
    /\ orig = disk
    /\ framed = <<>>
    /\ branch = "none"
    /\ segs_seen = <<>>
    /\ pureIdle

IsJpeg == path_ext = ".jpg"
IsPng == path_ext = ".png"

\* The call ends raising e ("none": it returns).  An exception out of
\* __init__ leaves no handle; one out of write_xmp leaves the handle usable.
EndCall(e) ==
    /\ exc' = e
    /\ pc' = IF in_init THEN (IF e = "none" THEN "init_tail" ELSE "failed") ELSE "ready"

\* Metadata.load: dispatch on the extension, then the constructor's
\* self._process().
load ==
    /\ pc = "start"
    /\ IF IsJpeg THEN pc' = "j_open" /\ exc' = exc
       ELSE IF IsPng THEN pc' = "p_open" /\ exc' = exc
       ELSE pc' = "failed" /\ exc' = "XMPError.UnsupportedFormat"
    /\ UNCHANGED <<path_ext, disk, tmpfile, f_open, f_pos, temp, in_init, writes,
                   new_xmp, file_pos, xmp_seg_pos, xmp_seg_size, xmp_packet, _xmp,
                   orig, framed, branch, segs_seen, pureVars>>

\* Metadata.__init__ after self._process() returned: self._xmp = None.
Metadata_init ==
    /\ pc = "init_tail"
    /\ _xmp' = NoneVal
    /\ pc' = "ready"
    /\ in_init' = FALSE
    /\ UNCHANGED <<path_ext, disk, tmpfile, f_open, f_pos, temp, exc, writes, new_xmp,
                   file_pos, xmp_seg_pos, xmp_seg_size, xmp_packet, orig, framed,
                   branch, segs_seen, pureVars>>

\* write_xmp(new_xmp): self._process(new_xmp).
write_xmp ==
    /\ pc = "ready"
    /\ writes < MaxWrites
    /\ \E x \in NewXmpInputs : new_xmp' = Rows(x)
    /\ writes' = writes + 1
    /\ in_init' = FALSE
    /\ exc' = "none"
    /\ orig' = disk
    /\ framed' = <<>>
    /\ branch' = "none"
    /\ segs_seen' = <<>>
    /\ pc' = IF IsJpeg THEN "j_open" ELSE "p_open"
    /\ UNCHANGED <<path_ext, disk, tmpfile, f_open, f_pos, temp, file_pos,
                   xmp_seg_pos, xmp_seg_size, xmp_packet, _xmp, pureVars>>

---------------------------------------------------------------------------
(* JpegMetadata._process.                                                 *)

\* f = open(self.filename, "r+b") and the locals' initial values.
JpegOpen ==
    /\ pc = "j_open"
    /\ IF disk = Absent
       THEN /\ EndCall("IOError")
            /\ UNCHANGED <<f_open, f_pos, temp, file_pos, xmp_seg_pos, xmp_seg_size,
                           xmp_packet>>
       ELSE /\ f_open' = TRUE
            /\ f_pos' = 0
            /\ temp' = "None"
            /\ file_pos' = 0
            /\ xmp_seg_pos' = 0
            /\ xmp_seg_size' = 0
            /\ xmp_packet' = <<>>
            /\ pc' = "j_magic"
            /\ exc' = exc
    /\ UNCHANGED <<path_ext, disk, tmpfile, in_init, writes, new_xmp, _xmp, orig,
                   framed, branch, segs_seen, pureVars>>

\* Mutant of JpegMagic: xmp_seg_pos is not set after the magic.
JpegMagic_NoDefault ==
    /\ pc = "j_magic"
    /\ LET magic == Read(disk, f_pos, 2)
       IN  /\ f_pos' = f_pos + Len(magic)
           /\ IF magic # JPEG_MAGIC
              THEN EndCall("XMPError.NotAJpegFile")
              ELSE pc' = "j_scan" /\ exc' = exc
    /\ UNCHANGED <<path_ext, disk, tmpfile, f_open, temp, in_init, writes, new_xmp,
                   file_pos, xmp_seg_pos, xmp_seg_size, xmp_packet, _xmp, orig, framed,
                   branch, segs_seen, pureVars>>

\* The magic check, outside the try block, and xmp_seg_pos = f.tell().
JpegMagic ==
    /\ pc = "j_magic"
    /\ LET magic == Read(disk, f_pos, 2)
       IN  /\ f_pos' = f_pos + Len(magic)
           /\ IF magic # JPEG_MAGIC
              THEN EndCall("XMPError.NotAJpegFile") /\ xmp_seg_pos' = xmp_seg_pos
              ELSE pc' = "j_scan" /\ exc' = exc /\ xmp_seg_pos' = f_pos'
    /\ UNCHANGED <<path_ext, disk, tmpfile, f_open, temp, in_init, writes, new_xmp,
                   file_pos, xmp_seg_size, xmp_packet, _xmp, orig, framed, branch,
                   segs_seen, pureVars>>

\* One iteration of the scan loop.
JpegScan ==
    /\ pc = "j_scan"
    /\ file_pos' = f_pos
    /\ LET seg == _read_segment(disk, f_pos)
       IN  IF seg.exc # "none"
           THEN /\ exc' = seg.exc
                /\ pc' = "j_finally"
                /\ UNCHANGED <<f_pos, xmp_seg_pos, xmp_seg_size, xmp_packet, segs_seen>>
           ELSE /\ f_pos' = seg.pos
                /\ segs_seen' = Append(segs_seen, seg.type)
                /\ exc' = exc
                /\ IF seg.type = APP0
                   THEN /\ xmp_seg_pos' = seg.pos
                        /\ pc' = "j_scan"
                        /\ UNCHANGED <<xmp_seg_size, xmp_packet>>
                   ELSE IF seg.type = APP1 /\ startswith(seg.data, EXIF_SIG)
                   THEN /\ xmp_seg_pos' = seg.pos
                        /\ pc' = "j_scan"
                        /\ UNCHANGED <<xmp_seg_size, xmp_packet>>
                   ELSE IF seg.type = APP1 /\ startswith(seg.data, XMP_NS)
                   THEN /\ xmp_seg_pos' = f_pos
                        /\ xmp_seg_size' = seg.length
                        /\ xmp_packet' = Slice(seg.data, JPEG_PREFIX_LEN, Len(seg.data))
                        /\ pc' = "j_write"
                   ELSE /\ pc' = IF seg.type = SOS THEN "j_write" ELSE "j_scan"
                        /\ UNCHANGED <<xmp_seg_pos, xmp_seg_size, xmp_packet>>
    /\ UNCHANGED <<path_ext, disk, tmpfile, f_open, temp, in_init, writes, new_xmp,
                   _xmp, orig, framed, branch, pureVars>>

\* "write xmp": the insertion-point check, the framing, the ceiling and the
\* choice between the rebuild and the write in place.
JpegWrite ==
    /\ pc = "j_write"
    /\ IF new_xmp = <<>>
       THEN pc' = "j_cache" /\ UNCHANGED <<exc, new_xmp, framed, branch>>
       ELSE IF xmp_seg_pos = 0
       THEN /\ exc' = "XMPError.NoInsertionPoint"
            /\ pc' = "j_finally"
            /\ UNCHANGED <<new_xmp, framed, branch>>
       ELSE \E guid \in UuidHex :
            LET arg == Bytes(new_xmp)
                w == IF packet_is_wrapped(arg) THEN arg
                     ELSE wrap_packet(arg, guid)
            IN  /\ new_xmp' = Rows(w)
                /\ framed' = Rows(w)
                /\ IF Len(w) > MAX_JPEG_PACKET
                   THEN /\ exc' = "XMPError.PacketTooLarge"
                        /\ pc' = "j_finally"
                        /\ branch' = branch
                   ELSE /\ exc' = exc
                        /\ branch' = IF Len(w) > Len(xmp_packet) THEN "grow" ELSE "fit"
                        /\ pc' = IF Len(w) > Len(xmp_packet) THEN "j_temp" ELSE "j_fit"
    /\ UNCHANGED <<path_ext, disk, tmpfile, f_open, f_pos, temp, in_init, writes,
                   file_pos, xmp_seg_pos, xmp_seg_size, xmp_packet, _xmp, orig,
                   segs_seen, pureVars>>

\* temp = tempfile.NamedTemporaryFile(mode="w+b", delete=False)
JpegGrowTemp ==
    /\ pc = "j_temp"
    /\ tmpfile' = <<>>
    /\ temp' = "open"
    /\ pc' = "j_prefix"
    /\ UNCHANGED <<path_ext, disk, f_open, f_pos, exc, in_init, writes, new_xmp,
                   file_pos, xmp_seg_pos, xmp_seg_size, xmp_packet, _xmp, orig,
                   framed, branch, segs_seen, pureVars>>

\* f.seek(0); buf = f.read(xmp_seg_pos); temp.write(buf)
JpegGrowPrefix ==
    /\ pc = "j_prefix"
    /\ LET buf == Read(disk, 0, xmp_seg_pos)
       IN  tmpfile' = tmpfile \o buf /\ f_pos' = Len(buf)
    /\ pc' = "j_segment"
    /\ UNCHANGED <<path_ext, disk, f_open, temp, exc, in_init, writes, new_xmp,
                   file_pos, xmp_seg_pos, xmp_seg_size, xmp_packet, _xmp, orig,
                   framed, branch, segs_seen, pureVars>>

\* new_xmp = pad_packet(...); self._write_segment(temp, 0xe1, ...)
JpegGrowSegment ==
    /\ pc = "j_segment"
    /\ LET arg == Bytes(new_xmp)
           padded == pad_packet(arg, GrowCapacity(Len(arg)))
           seg == _write_segment(APP1, XMP_NS \o padded.val)
       IN  IF padded.exc # "none"
           THEN exc' = padded.exc /\ pc' = "j_finally" /\ UNCHANGED <<new_xmp, tmpfile>>
           ELSE /\ new_xmp' = Rows(padded.val)
                /\ IF seg.exc # "none"
                   THEN exc' = seg.exc /\ pc' = "j_finally" /\ tmpfile' = tmpfile
                   ELSE exc' = exc /\ pc' = "j_rest" /\ tmpfile' = tmpfile \o seg.val
    /\ UNCHANGED <<path_ext, disk, f_open, f_pos, temp, in_init, writes, file_pos,
                   xmp_seg_pos, xmp_seg_size, xmp_packet, _xmp, orig, framed, branch,
                   segs_seen, pureVars>>

\* f.seek(xmp_seg_size, 1); buf = f.read(); temp.write(buf)
JpegGrowRest ==
    /\ pc = "j_rest"
    /\ LET buf == Read(disk, f_pos + xmp_seg_size, -1)
       IN  tmpfile' = tmpfile \o buf /\ f_pos' = f_pos + xmp_seg_size + Len(buf)
    /\ pc' = "j_close"
    /\ UNCHANGED <<path_ext, disk, f_open, temp, exc, in_init, writes, new_xmp,
                   file_pos, xmp_seg_pos, xmp_seg_size, xmp_packet, _xmp, orig,
                   framed, branch, segs_seen, pureVars>>

\* Mutant of JpegGrowClose: the temporary file is not closed before the
\* original is removed.
JpegGrowClose_TempLeftOpen ==
    /\ pc = "j_close"
    /\ f_open' = FALSE
    /\ pc' = "j_unlink"
    /\ UNCHANGED <<path_ext, disk, tmpfile, f_pos, temp, exc, in_init, writes, new_xmp,
                   file_pos, xmp_seg_pos, xmp_seg_size, xmp_packet, _xmp, orig,
                   framed, branch, segs_seen, pureVars>>

\* f.close(); temp.close()
JpegGrowClose ==
    /\ pc = "j_close"
    /\ f_open' = FALSE
    /\ temp' = "closed"
    /\ pc' = "j_unlink"
    /\ UNCHANGED <<path_ext, disk, tmpfile, f_pos, exc, in_init, writes, new_xmp,
                   file_pos, xmp_seg_pos, xmp_seg_size, xmp_packet, _xmp, orig,
                   framed, branch, segs_seen, pureVars>>

\* os.unlink(self.filename)
JpegGrowUnlink ==
    /\ pc = "j_unlink"
    /\ disk' = Absent
    /\ pc' = "j_move"
    /\ UNCHANGED <<path_ext, tmpfile, f_open, f_pos, temp, exc, in_init, writes,
                   new_xmp, file_pos, xmp_seg_pos, xmp_seg_size, xmp_packet, _xmp,
                   orig, framed, branch, segs_seen, pureVars>>

\* shutil.move(temp.name, self.filename)
JpegGrowMove ==
    /\ pc = "j_move"
    /\ disk' = tmpfile
    /\ tmpfile' = Absent
    /\ pc' = "j_assign"
    /\ UNCHANGED <<path_ext, f_open, f_pos, temp, exc, in_init, writes, new_xmp,
                   file_pos, xmp_seg_pos, xmp_seg_size, xmp_packet, _xmp, orig,
                   framed, branch, segs_seen, pureVars>>

\* "write in place": f.seek(xmp_seg_pos); pad_packet; _write_segment(f, ...)
JpegFit ==
    /\ pc = "j_fit"
    /\ LET padded == pad_packet(Bytes(new_xmp), Len(xmp_packet))
           seg == _write_segment(APP1, XMP_NS \o padded.val)
       IN  IF padded.exc # "none"
           THEN /\ exc' = padded.exc
                /\ pc' = "j_finally"
                /\ f_pos' = xmp_seg_pos
                /\ UNCHANGED <<new_xmp, disk>>
           ELSE /\ new_xmp' = Rows(padded.val)
                /\ IF seg.exc # "none"
                   THEN /\ exc' = seg.exc
                        /\ pc' = "j_finally"
                        /\ f_pos' = xmp_seg_pos
                        /\ disk' = disk
                   ELSE /\ exc' = exc
                        /\ pc' = "j_assign"
                        /\ disk' = Overwrite(disk, xmp_seg_pos, seg.val)
                        /\ f_pos' = xmp_seg_pos + Len(seg.val)
    /\ UNCHANGED <<path_ext, tmpfile, f_open, temp, in_init, writes, file_pos,
                   xmp_seg_pos, xmp_seg_size, xmp_packet, _xmp, orig, framed, branch,
                   segs_seen, pureVars>>

\* xmp_packet = new_xmp after a write; then
\* if xmp_packet: self._xmp = unwrap_packet(xmp_packet)
JpegCache ==
    /\ pc \in {"j_assign", "j_cache"}
    /\ LET packet == IF pc = "j_assign" THEN Bytes(new_xmp) ELSE xmp_packet
       IN  /\ xmp_packet' = packet
           /\ _xmp' = IF packet # <<>> THEN unwrap_packet(packet) ELSE _xmp
    /\ pc' = "j_finally"
    /\ UNCHANGED <<path_ext, disk, tmpfile, f_open, f_pos, temp, exc, in_init, writes,
                   new_xmp, file_pos, xmp_seg_pos, xmp_seg_size, orig, framed, branch,
                   segs_seen, pureVars>>

\* finally: f.close(); if temp: temp.close()
JpegFinally ==
    /\ pc = "j_finally"
    /\ f_open' = FALSE
    /\ temp' = IF temp = "open" THEN "closed" ELSE temp
    /\ EndCall(exc)
    /\ UNCHANGED <<path_ext, disk, tmpfile, f_pos, in_init, writes, new_xmp, file_pos,
                   xmp_seg_pos, xmp_seg_size, xmp_packet, _xmp, orig, framed, branch,
                   segs_seen, pureVars>>

JpegNext ==
    \/ JpegOpen \/ JpegMagic \/ JpegScan \/ JpegWrite
    \/ JpegGrowTemp \/ JpegGrowPrefix \/ JpegGrowSegment \/ JpegGrowRest
    \/ JpegGrowClose \/ JpegGrowUnlink \/ JpegGrowMove
    \/ JpegFit \/ JpegCache \/ JpegFinally

---------------------------------------------------------------------------
(* PngMetadata._process.                                                  *)

\* f = open(self.filename, "rb") and the locals' initial values.
PngOpen ==
    /\ pc = "p_open"
    /\ IF disk = Absent
       THEN /\ EndCall("IOError")
            /\ UNCHANGED <<f_open, f_pos, temp, file_pos, xmp_seg_pos, xmp_seg_size,
                           xmp_packet>>
       ELSE /\ f_open' = TRUE
            /\ f_pos' = 0
            /\ temp' = "None"
            /\ file_pos' = 0
            /\ xmp_seg_pos' = 0
            /\ xmp_seg_size' = 0
            /\ xmp_packet' = <<>>
            /\ pc' = "p_magic"
            /\ exc' = exc
    /\ UNCHANGED <<path_ext, disk, tmpfile, in_init, writes, new_xmp, _xmp, orig,
                   framed, branch, segs_seen, pureVars>>

\* The signature check, outside the try block.
PngMagic ==
    /\ pc = "p_magic"
    /\ LET magic == Read(disk, f_pos, 8)
       IN  /\ f_pos' = f_pos + Len(magic)
           /\ IF magic # PNG_MAGIC
              THEN EndCall("XMPError.NotAPngFile")
              ELSE pc' = "p_scan" /\ exc' = exc
    /\ UNCHANGED <<path_ext, disk, tmpfile, f_open, temp, in_init, writes, new_xmp,
                   file_pos, xmp_seg_pos, xmp_seg_size, xmp_packet, _xmp, orig,
                   framed, branch, segs_seen, pureVars>>

\* One iteration of the scan loop.
PngScan ==
    /\ pc = "p_scan"
    /\ file_pos' = f_pos
    /\ LET chunk == _read_chunk(disk, f_pos)
       IN  IF chunk.exc # "none"
           THEN /\ exc' = chunk.exc
                /\ pc' = "p_scan_finally"
                /\ UNCHANGED <<f_pos, xmp_seg_pos, xmp_seg_size, xmp_packet, segs_seen>>
           ELSE /\ f_pos' = chunk.pos
                /\ segs_seen' = Append(segs_seen, chunk.type)
                /\ exc' = exc
                /\ IF chunk.type = IHDR
                   THEN /\ xmp_seg_pos' = chunk.pos
                        /\ pc' = "p_scan"
                        /\ UNCHANGED <<xmp_seg_size, xmp_packet>>
                   ELSE IF chunk.type = iTXt /\ startswith(chunk.data, XMP_KEYWORD)
                   THEN /\ xmp_seg_pos' = f_pos
                        /\ xmp_seg_size' = chunk.length + PNG_CHUNK_OVERHEAD
                        /\ xmp_packet' = Slice(chunk.data, PNG_PREFIX_LEN, Len(chunk.data))
                        /\ pc' = "p_scan_finally"
                   ELSE /\ pc' = IF chunk.type = IEND THEN "p_scan_finally" ELSE "p_scan"
                        /\ UNCHANGED <<xmp_seg_pos, xmp_seg_size, xmp_packet>>
    /\ UNCHANGED <<path_ext, disk, tmpfile, f_open, temp, in_init, writes, new_xmp,
                   _xmp, orig, framed, branch, pureVars>>

\* The scan's finally: f.close().
PngScanFinally ==
    /\ pc = "p_scan_finally"
    /\ f_open' = FALSE
    /\ IF exc # "none" THEN EndCall(exc) ELSE pc' = "p_write" /\ exc' = exc
    /\ UNCHANGED <<path_ext, disk, tmpfile, f_pos, temp, in_init, writes, new_xmp,
                   file_pos, xmp_seg_pos, xmp_seg_size, xmp_packet, _xmp, orig,
                   framed, branch, segs_seen, pureVars>>

\* "write xmp": the insertion-point check, the framing and the choice
\* between the rebuild and the write in place; no handle is open here.
PngWrite ==
    /\ pc = "p_write"
    /\ IF new_xmp = <<>>
       THEN pc' = "p_cache" /\ UNCHANGED <<exc, new_xmp, framed, branch>>
       ELSE IF xmp_seg_pos = 0
       THEN /\ EndCall("XMPError.NoInsertionPoint")
            /\ UNCHANGED <<new_xmp, framed, branch>>
       ELSE \E guid \in UuidHex :
            LET arg == Bytes(new_xmp)
                w == IF packet_is_wrapped(arg) THEN arg
                     ELSE wrap_packet(arg, guid)
            IN  /\ new_xmp' = Rows(w)
                /\ framed' = Rows(w)
                /\ exc' = exc
                /\ branch' = IF Len(w) > Len(xmp_packet) THEN "grow" ELSE "fit"
                /\ pc' = IF Len(w) > Len(xmp_packet) THEN "p_grow_open" ELSE "p_fit"
    /\ UNCHANGED <<path_ext, disk, tmpfile, f_open, f_pos, temp, in_init, writes,
                   file_pos, xmp_seg_pos, xmp_seg_size, xmp_packet, _xmp, orig,
                   segs_seen, pureVars>>

\* f = open(self.filename, "rb")
PngGrowOpen ==
    /\ pc = "p_grow_open"
    /\ f_open' = TRUE
    /\ f_pos' = 0
    /\ pc' = "p_temp"
    /\ UNCHANGED <<path_ext, disk, tmpfile, temp, exc, in_init, writes, new_xmp,
                   file_pos, xmp_seg_pos, xmp_seg_size, xmp_packet, _xmp, orig,
                   framed, branch, segs_seen, pureVars>>

\* temp = tempfile.NamedTemporaryFile(mode="w+b", delete=False)
PngGrowTemp ==
    /\ pc = "p_temp"
    /\ tmpfile' = <<>>
    /\ temp' = "open"
    /\ pc' = "p_prefix"
    /\ UNCHANGED <<path_ext, disk, f_open, f_pos, exc, in_init, writes, new_xmp,
                   file_pos, xmp_seg_pos, xmp_seg_size, xmp_packet, _xmp, orig,
                   framed, branch, segs_seen, pureVars>>

\* f.seek(0); buf = f.read(xmp_seg_pos); temp.write(buf)
PngGrowPrefix ==
    /\ pc = "p_prefix"
    /\ LET buf == Read(disk, 0, xmp_seg_pos)
       IN  tmpfile' = tmpfile \o buf /\ f_pos' = Len(buf)
    /\ pc' = "p_chunk"
    /\ UNCHANGED <<path_ext, disk, f_open, temp, exc, in_init, writes, new_xmp,
                   file_pos, xmp_seg_pos, xmp_seg_size, xmp_packet, _xmp, orig,
                   framed, branch, segs_seen, pureVars>>

\* new_xmp = pad_packet(...); self._write_chunk(temp, "iTXt", ...)
PngGrowChunk ==
    /\ pc = "p_chunk"
    /\ LET arg == Bytes(new_xmp)
           padded == pad_packet(arg, GrowCapacity(Len(arg)))
       IN  IF padded.exc # "none"
           THEN exc' = padded.exc /\ pc' = "p_grow_finally" /\ UNCHANGED <<new_xmp, tmpfile>>
           ELSE /\ new_xmp' = Rows(padded.val)
                /\ tmpfile' = tmpfile \o _write_chunk(iTXt, XMP_KEYWORD \o padded.val)
                /\ exc' = exc
                /\ pc' = "p_rest"
    /\ UNCHANGED <<path_ext, disk, f_open, f_pos, temp, in_init, writes, file_pos,
                   xmp_seg_pos, xmp_seg_size, xmp_packet, _xmp, orig, framed, branch,
                   segs_seen, pureVars>>

\* f.seek(xmp_seg_size, 1); buf = f.read(); temp.write(buf)
PngGrowRest ==
    /\ pc = "p_rest"
    /\ LET buf == Read(disk, f_pos + xmp_seg_size, -1)
       IN  tmpfile' = tmpfile \o buf /\ f_pos' = f_pos + xmp_seg_size + Len(buf)
    /\ pc' = "p_close"
    /\ UNCHANGED <<path_ext, disk, f_open, temp, exc, in_init, writes, new_xmp,
                   file_pos, xmp_seg_pos, xmp_seg_size, xmp_packet, _xmp, orig,
                   framed, branch, segs_seen, pureVars>>

\* f.close(); temp.close()
PngGrowClose ==
    /\ pc = "p_close"
    /\ f_open' = FALSE
    /\ temp' = "closed"
    /\ pc' = "p_unlink"
    /\ UNCHANGED <<path_ext, disk, tmpfile, f_pos, exc, in_init, writes, new_xmp,
                   file_pos, xmp_seg_pos, xmp_seg_size, xmp_packet, _xmp, orig,
                   framed, branch, segs_seen, pureVars>>

\* os.unlink(self.filename)
PngGrowUnlink ==
    /\ pc = "p_unlink"
    /\ disk' = Absent
    /\ pc' = "p_move"
    /\ UNCHANGED <<path_ext, tmpfile, f_open, f_pos, temp, exc, in_init, writes,
                   new_xmp, file_pos, xmp_seg_pos, xmp_seg_size, xmp_packet, _xmp,
                   orig, framed, branch, segs_seen, pureVars>>

\* shutil.move(temp.name, self.filename)
PngGrowMove ==
    /\ pc = "p_move"
    /\ disk' = tmpfile
    /\ tmpfile' = Absent
    /\ pc' = "p_grow_finally"
    /\ UNCHANGED <<path_ext, f_open, f_pos, temp, exc, in_init, writes, new_xmp,
                   file_pos, xmp_seg_pos, xmp_seg_size, xmp_packet, _xmp, orig,
                   framed, branch, segs_seen, pureVars>>

\* The rebuild's finally: f.close(); temp.close().  temp is unbound when
\* NamedTemporaryFile itself failed.
PngGrowFinally ==
    /\ pc = "p_grow_finally"
    /\ f_open' = FALSE
    /\ temp' = IF temp = "open" THEN "closed" ELSE temp
    /\ IF temp = "None" THEN EndCall("UnboundLocalError")
       ELSE IF exc # "none" THEN EndCall(exc)
       ELSE pc' = "p_assign" /\ exc' = exc
    /\ UNCHANGED <<path_ext, disk, tmpfile, f_pos, in_init, writes, new_xmp, file_pos,
                   xmp_seg_pos, xmp_seg_size, xmp_packet, _xmp, orig, framed, branch,
                   segs_seen, pureVars>>

\* "write in place": f = open(self.filename, "r+b"); f.seek(xmp_seg_pos);
\* pad_packet; _write_chunk(f, ...)
PngFit ==
    /\ pc = "p_fit"
    /\ f_open' = TRUE
    /\ LET padded == pad_packet(Bytes(new_xmp), Len(xmp_packet))
           chunk == _write_chunk(iTXt, XMP_KEYWORD \o padded.val)
       IN  IF padded.exc # "none"
           THEN /\ exc' = padded.exc
                /\ f_pos' = xmp_seg_pos
                /\ UNCHANGED <<new_xmp, disk>>
           ELSE /\ new_xmp' = Rows(padded.val)
                /\ exc' = exc
                /\ disk' = Overwrite(disk, xmp_seg_pos, chunk)
                /\ f_pos' = xmp_seg_pos + Len(chunk)
    /\ pc' = "p_fit_finally"
    /\ UNCHANGED <<path_ext, tmpfile, temp, in_init, writes, file_pos, xmp_seg_pos,
                   xmp_seg_size, xmp_packet, _xmp, orig, framed, branch, segs_seen,
                   pureVars>>

\* The in-place write's finally: f.close().
PngFitFinally ==
    /\ pc = "p_fit_finally"
    /\ f_open' = FALSE
    /\ IF exc # "none" THEN EndCall(exc) ELSE pc' = "p_assign" /\ exc' = exc
    /\ UNCHANGED <<path_ext, disk, tmpfile, f_pos, temp, in_init, writes, new_xmp,
                   file_pos, xmp_seg_pos, xmp_seg_size, xmp_packet, _xmp, orig,
                   framed, branch, segs_seen, pureVars>>

\* xmp_packet = new_xmp after a write; then
\* if xmp_packet: self._xmp = unwrap_packet(xmp_packet)
PngCache ==
    /\ pc \in {"p_assign", "p_cache"}
    /\ LET packet == IF pc = "p_assign" THEN Bytes(new_xmp) ELSE xmp_packet
       IN  /\ xmp_packet' = packet
           /\ _xmp' = IF packet # <<>> THEN unwrap_packet(packet) ELSE _xmp
    /\ EndCall("none")
    /\ UNCHANGED <<path_ext, disk, tmpfile, f_open, f_pos, temp, in_init, writes,
                   new_xmp, file_pos, xmp_seg_pos, xmp_seg_size, orig, framed, branch,
                   segs_seen, pureVars>>

PngNext ==
    \/ PngOpen \/ PngMagic \/ PngScan \/ PngScanFinally \/ PngWrite
    \/ PngGrowOpen \/ PngGrowTemp \/ PngGrowPrefix \/ PngGrowChunk \/ PngGrowRest
    \/ PngGrowClose \/ PngGrowUnlink \/ PngGrowMove \/ PngGrowFinally
    \/ PngFit \/ PngFitFinally \/ PngCache

---------------------------------------------------------------------------
(* The environment: an operating-system call of the rebuild fails.        *)

\* The step at which each pc of the rebuild makes its system call, and the
\* finally block an exception raised there reaches.
RebuildFinally ==
    [j_temp |-> "j_finally", j_prefix |-> "j_finally", j_rest |-> "j_finally",
     j_unlink |-> "j_finally", j_move |-> "j_finally",
     p_temp |-> "p_grow_finally", p_prefix |-> "p_grow_finally",
     p_rest |-> "p_grow_finally", p_unlink |-> "p_grow_finally",
     p_move |-> "p_grow_finally"]

\* NamedTemporaryFile, read, write, os.unlink or shutil.move raises IOError.
RaiseIOError ==
    /\ pc \in DOMAIN RebuildFinally
    /\ exc' = "IOError"
    /\ pc' = RebuildFinally[pc]
    /\ UNCHANGED <<path_ext, disk, tmpfile, f_open, f_pos, temp, in_init, writes,
                   new_xmp, file_pos, xmp_seg_pos, xmp_seg_size, xmp_packet, _xmp,
                   orig, framed, branch, segs_seen, pureVars>>

Next == load \/ Metadata_init \/ write_xmp \/ JpegNext \/ PngNext \/ RaiseIOError
Spec == Init /\ [][Next]_vars


---------------------------------------------------------------------------
(* The pure functions, applied to enumerated arguments.                   *)

\* Tokens joined into one argument.
MaxPadTokens == 2
MaxFrameTokens == 3
\* pad_packet's size argument ranges over len(xmp) - MaxPadDelta .. len(xmp) + MaxPadDelta.
MaxPadDelta == 82

RECURSIVE Join(_)
Join(ts) == IF ts = <<>> THEN <<>> ELSE Head(ts) \o Join(Tail(ts))
Joined(T, n) == {Join(ts) : ts \in UNION {[1..k -> T] : k \in 0..n}}

\* '<?xpacket', 'x', '?>'
PadArgs == Joined({XPACKET, <<120>>, <<63, 62>>}, MaxPadTokens) \cup {ExistingPacket}
\* '<rdf:RDF>', '</rdf:RDF>', 'x', '<?xpacket'
FrameArgs == Joined({RDF_START \o <<62>>, RDF_END, <<120>>, XPACKET}, MaxFrameTokens)
\* guid: None (the default, a fresh uuid4 hex), b'id', b'<rdf:RDF>', b'</rdf:RDF>'
GuidArgs == {NoneVal, <<105, 100>>, RDF_START \o <<62>>, RDF_END}

\* No handle, no file: the file machine does not run.
fileIdle ==
    /\ path_ext = ".none"
    /\ disk = Absent
    /\ tmpfile = Absent
    /\ f_open = FALSE
    /\ f_pos = 0
    /\ temp = "None"
    /\ pc = "none"
    /\ exc = "none"
    /\ in_init = FALSE
    /\ writes = 0
    /\ new_xmp = <<>>
    /\ file_pos = 0
    /\ xmp_seg_pos = 0
    /\ xmp_seg_size = 0
    /\ xmp_packet = <<>>
    /\ _xmp = NoneVal
    /\ orig = Absent
    /\ framed = <<>>
    /\ branch = "none"
    /\ segs_seen = <<>>

InitPad ==
    /\ fileIdle
    /\ \E x \in PadArgs : \E d \in (0 - MaxPadDelta)..MaxPadDelta :
           /\ Len(x) + d >= 0
           /\ call = [fn |-> "pad_packet", xmp |-> x, size |-> Len(x) + d]
    /\ ret = NoCall

\* pad_packet(call.xmp, call.size)
PadPacket ==
    /\ call.fn = "pad_packet"
    /\ ret = NoCall
    /\ LET r == pad_packet(call.xmp, call.size)
       IN  ret' = [fn |-> "pad_packet", exc |-> r.exc, val |-> r.val]
    /\ UNCHANGED <<call, fileVars>>

NextPad == PadPacket
SpecPad == InitPad /\ [][NextPad]_vars

InitFrame ==
    /\ fileIdle
    /\ \E r \in FrameArgs : \E g \in GuidArgs :
           call = [fn |-> "wrap_packet", rdf |-> r, guid |-> g]
    /\ ret = NoCall

\* wrap_packet(call.rdf, call.guid); guid None: uuid.uuid4().hex.encode()
WrapPacket ==
    /\ call.fn = "wrap_packet"
    /\ ret = NoCall
    /\ \E guid \in (IF call.guid = NoneVal THEN UuidHex ELSE {call.guid}) :
           ret' = [fn |-> "wrap_packet", guid |-> guid,
                   val |-> wrap_packet(call.rdf, guid)]
    /\ UNCHANGED <<call, fileVars>>

\* unwrap_packet of the packet wrap_packet returned
UnwrapPacket ==
    /\ ret.fn = "wrap_packet"
    /\ ret' = [fn |-> "unwrap_packet", guid |-> ret.guid, val |-> unwrap_packet(ret.val)]
    /\ UNCHANGED <<call, fileVars>>

NextFrame == WrapPacket \/ UnwrapPacket
SpecFrame == InitFrame /\ [][NextFrame]_vars


---------------------------------------------------------------------------
(* Properties.                                                            *)

\* The load, or a write_xmp call, has ended (returned or raised).
LoadEnded == pc = "failed" \/ (pc = "ready" /\ writes = 0)
WriteEnded == pc = "ready" /\ writes > 0
SeenTypes == {segs_seen[i] : i \in DOMAIN segs_seen}

\* The scan found an XMP record: the record's size is recorded only then.
Found == xmp_seg_size # 0
\* The packet the call holds, and the packet as it was framed.
Written == Bytes(new_xmp)
Framed == Bytes(framed)
\* Length of the whole record at the slot position of the file as it was
\* when the call started, read from the record's own length field.
OldRecordLen ==
    IF ~Found THEN 0
    ELSE IF IsJpeg THEN 2 + UnpackH(SubSeq(orig, xmp_seg_pos + 3, xmp_seg_pos + 4))
    ELSE PNG_CHUNK_OVERHEAD + UnpackI(SubSeq(orig, xmp_seg_pos + 1, xmp_seg_pos + 4))
\* Packet capacity of that record.
OldCapacity ==
    IF IsJpeg THEN OldRecordLen - 4 - JPEG_PREFIX_LEN
    ELSE OldRecordLen - PNG_CHUNK_OVERHEAD - PNG_PREFIX_LEN
\* The XMP record holding packet, in the handle's container format.
RecordOf(packet) ==
    IF IsJpeg THEN <<255, APP1>> \o PackH(Len(packet) + JPEG_PREFIX_LEN + 2) \o XMP_NS \o packet
    ELSE _write_chunk(iTXt, XMP_KEYWORD \o packet)

\* C1 (as claimed): after load, has_xmp() is true exactly when the scan
\* found an XMP record.
C1_HasXmpIffFound ==
    (pc = "ready" /\ writes = 0) => (has_xmp <=> Found)

\* C2 (as claimed): a completed grow-path write leaves a record whose
\* capacity is a multiple of 4000 and at least the framed length, holding
\* the framed packet padded, and the file is the original prefix, the new
\* record, and the original bytes after the whole old record.
C2_GrowRebuildsExactly ==
    (WriteEnded /\ branch = "grow" /\ exc = "none") =>
        /\ Len(Written) % PAD_UNIT = 0
        /\ Len(Written) >= Len(Framed)
        /\ Written = pad_packet(Framed, Len(Written)).val
        /\ disk = SubSeq(orig, 1, xmp_seg_pos) \o RecordOf(Written)
                      \o Slice(orig, xmp_seg_pos + OldRecordLen, Len(orig))

\* C3: on the fit path the file keeps its length and every byte outside the
\* existing XMP record, at every step and however the call ends; a write
\* that completes leaves at the slot position the record of the packet
\* padded to exactly the slot's capacity.
C3_FitKeepsFrame ==
    branch = "fit" =>
        /\ disk # Absent
        /\ Len(disk) = Len(orig)
        /\ SubSeq(disk, 1, xmp_seg_pos) = SubSeq(orig, 1, xmp_seg_pos)
        /\ Slice(disk, xmp_seg_pos + OldRecordLen, Len(disk))
               = Slice(orig, xmp_seg_pos + OldRecordLen, Len(orig))
        /\ (WriteEnded /\ exc = "none") =>
               /\ Len(Written) = OldCapacity
               /\ Written = pad_packet(Framed, OldCapacity).val
               /\ SubSeq(disk, xmp_seg_pos + 1, xmp_seg_pos + OldRecordLen) = RecordOf(Written)
C3_Witness ==
    branch = "fit" /\ WriteEnded /\ exc = "none" /\ disk # orig /\ Len(Framed) < OldCapacity

\* C5 (as claimed): a JPEG write whose framed and padded packet is longer
\* than 65502 bytes fails with PacketTooLarge and leaves the file as it was
\* (calls ended by a failure of the file system are left out).
\* The length the framed packet is padded to: the slot's capacity when it
\* fits, the next multiple of 4000 otherwise.
PaddedLen ==
    IF Found /\ Len(Framed) <= OldCapacity THEN OldCapacity
    ELSE GrowCapacity(Len(Framed))
C5_CeilingRaisesPacketTooLarge ==
    (IsJpeg /\ WriteEnded /\ framed # <<>> /\ exc # "IOError"
        /\ PaddedLen > MAX_JPEG_PACKET) =>
        (exc = "XMPError.PacketTooLarge" /\ disk = orig)

\* The scan of a JPEG write reached the start of scan having seen no APP0
\* and no APP1 (Exif or XMP) segment.
NoEarlySegment ==
    /\ IsJpeg /\ WriteEnded /\ new_xmp # <<>>
    /\ SOS \in SeenTypes /\ APP0 \notin SeenTypes /\ APP1 \notin SeenTypes

\* C6 (as claimed): such a write fails with NoInsertionPoint and writes
\* nothing (calls ended by a failure of the file system are left out).
C6_NoEarlySegmentRaises ==
    (NoEarlySegment /\ exc # "IOError") =>
        (exc = "XMPError.NoInsertionPoint" /\ disk = orig)
\* C6 (amended): such a write never fails with NoInsertionPoint; the
\* insertion point is offset 2, right after the start-of-image marker, and a
\* write that completes leaves the new record there, between the marker and
\* the rest of the original file.
C6_DefaultsAfterMagic ==
    NoEarlySegment =>
        /\ exc # "XMPError.NoInsertionPoint"
        /\ xmp_seg_pos = 2
        /\ exc = "none" =>
               disk = JPEG_MAGIC \o RecordOf(Written) \o Slice(orig, 2, Len(orig))
C6_Witness == NoEarlySegment /\ exc = "none" /\ branch = "grow"

\* The content the rebuild writes: the prefix, the new record, and what the
\* code reads as the remainder.
Rebuilt ==
    SubSeq(orig, 1, xmp_seg_pos) \o RecordOf(Written)
        \o Read(orig, xmp_seg_pos + xmp_seg_size, -1)

C9_NoHandleLeftOpen ==
    (pc \in {"ready", "failed"}) => (~f_open /\ temp # "open")

\* The load of a JPEG whose APP1 length field was corrupted so that the
\* payload read swallows the start-of-scan segment has ended.
CorruptWalkEnded ==
    IsJpeg /\ LoadEnded /\ orig \in JpegCorruptFiles \cup {JpegResyncFile}

\* C10 (as claimed): such a read completes as "no packet found" and raises
\* nothing.
C10_CorruptWalkReturns ==
    CorruptWalkEnded => (pc = "ready" /\ exc = "none" /\ ~has_xmp)
\* C10 (amended): such a read raises (Invalid JPEG segment, or struct.error
\* on a header cut short) and yields no handle, unless the bytes the walk
\* resumes on parse as a start-of-scan segment (JpegResyncFile); only then
\* does it complete as "no packet found".
C10_CorruptWalkRaises ==
    CorruptWalkEnded =>
        IF orig = JpegResyncFile
        THEN pc = "ready" /\ exc = "none" /\ ~has_xmp /\ SOS \in SeenTypes
        ELSE /\ pc = "failed"
             /\ exc \in {"XMPError.InvalidSegment", "struct.error"}
             /\ SOS \notin SeenTypes
C10_Witness ==
    CorruptWalkEnded /\ orig \in JpegCorruptFiles /\ pc = "failed" /\ exc = "struct.error"

\* C4 (as claimed): pad_packet(p, n) has length n for every n >= len(p),
\* and fails with PacketTooLarge for every n < len(p).
C4_PadExact ==
    ret.fn = "pad_packet" =>
        IF call.size >= Len(call.xmp)
        THEN ret.exc = "none" /\ Len(ret.val) = call.size
        ELSE ret.exc = "XMPError.PacketTooLarge"

\* r holds none of the envelope's markers.
NoEnvelopeMarker(r) ==
    /\ find(r, XPACKET) = -1
    /\ find(r, SubSeq(XMPMETA_OPEN, 1, 10)) = -1
    /\ find(r, XMPMETA_CLOSE) = -1
\* r begins with <rdf:RDF and its first </rdf:RDF> is its last ten bytes.
IsRdfElement(r) ==
    /\ startswith(r, RDF_START)
    /\ find(r, RDF_END) >= 0
    /\ find(r, RDF_END) = Len(r) - Len(RDF_END)

\* C8 (as claimed): unwrap_packet(wrap_packet(r)) = r for every r without
\* the reserved markers, for every packet id.
C8_RoundTrip ==
    (ret.fn = "unwrap_packet" /\ NoEnvelopeMarker(call.rdf)) => ret.val = call.rdf
\* C8 (amended): unwrap_packet(wrap_packet(r, id)) = r for every r that
\* begins with <rdf:RDF and whose first </rdf:RDF> is its last ten bytes,
\* and every packet id, default or given, that holds neither marker.
C8_RoundTripOfRdfElement ==
    (/\ ret.fn = "unwrap_packet"
     /\ IsRdfElement(call.rdf)
     /\ find(ret.guid, RDF_START) = -1
     /\ find(ret.guid, RDF_END) = -1) => ret.val = call.rdf
C8_Witness ==
    /\ ret.fn = "unwrap_packet"
    /\ IsRdfElement(call.rdf)
    /\ call.guid = NoneVal
    /\ Len(call.rdf) > Len(RDF_START) + 1 + Len(RDF_END)
    /\ ret.val = call.rdf

=============================================================================
